---- MODULE Spec2Model ----
(***************************************************************************)
(* Option pricing engines of qfrm:                                         *)
(*   European._calc_BS            analytic (Black-Scholes-Merton) price    *)
(*   European._calc_LT            binomial tree, both evaluation modes     *)
(*   LowExercisePrice._calc_LT    binomial tree with strike 0.01           *)
(*   LowExercisePrice._calc_FD    implicit finite-difference grid          *)
(*                                                                         *)
(* Numbers are exact rationals <<numerator, denominator>> in lowest terms  *)
(* with a positive denominator.  NaN is <<0, 0>>, Python's None is <<>>.   *)
(***************************************************************************)
EXTENDS Integers, Sequences, FiniteSets, TLC

VARIABLES
    pc,         \* position in the running pricing call
    err,        \* exception that ended the call, "none" while there is none
    px_spec,    \* what px_spec.add(...) recorded; None before that
    self,       \* the option object's fields and the px_spec inputs of the call
    specs,      \* LT: lattice constants returned by LT_specs(n)
    S,          \* LT: underlying prices of the current step
    O,          \* LT: option values of the current step
    S_tree,     \* LT: price tree (None unless keep_hist)
    O_tree,     \* LT: value tree (None unless keep_hist)
    i,          \* LT: loop variable of the backward roll
    out,        \* LT: price before it is recorded
    grid,       \* FD: S_vec, init_cond, upper_bound, lower_bound, a/b/c lists, M, N
    f_px,       \* FD: f_px[j+1][k+1] is the value at price index j, time index k
    Offset,     \* FD: boundary injection vector of the interior solve
    idx,        \* FD: time index of the backward loop
    bs          \* BS: d1, d2, px_call, px_put

vars == <<pc, err, px_spec, self, specs, S, O, S_tree, O_tree, i, out,
          grid, f_px, Offset, idx, bs>>

ltVars == <<specs, S, O, S_tree, O_tree, i, out>>
fdVars == <<grid, f_px, Offset, idx>>

-----------------------------------------------------------------------------
(* Bounds of the model *)

MaxN == 3
MaxSteps == 3
MaxPaths == 4

-----------------------------------------------------------------------------
(* Exact arithmetic standing for Python's float arithmetic *)

None == <<>>
NaN == <<0, 0>>

Abs(x) == IF x < 0 THEN -x ELSE x

RECURSIVE GCD(_, _)
GCD(a, b) == IF b = 0 THEN a ELSE GCD(b, a % b)

Rat(num, den) ==
    LET g == GCD(Abs(num), Abs(den))
        s == IF den < 0 THEN -1 ELSE 1
    IN  <<(s * num) \div g, (s * den) \div g>>

FromInt(k) == <<k, 1>>
Zero == <<0, 1>>
One == <<1, 1>>

RAdd(x, y) ==
    LET g == GCD(x[2], y[2])
    IN  Rat(x[1] * (y[2] \div g) + y[1] * (x[2] \div g), (x[2] \div g) * y[2])

RNeg(x) == <<-x[1], x[2]>>

RSub(x, y) == RAdd(x, RNeg(y))

RMul(x, y) ==
    LET g1 == GCD(Abs(x[1]), y[2])
        g2 == GCD(Abs(y[1]), x[2])
    IN  Rat((x[1] \div g1) * (y[1] \div g2), (x[2] \div g2) * (y[2] \div g1))

RInv(x) == IF x[1] < 0 THEN <<-x[2], -x[1]>> ELSE <<x[2], x[1]>>

RDiv(x, y) == RMul(x, RInv(y))

RLe(x, y) == RSub(x, y)[1] <= 0
RLt(x, y) == RSub(x, y)[1] < 0

RMax(x, y) == IF RLe(x, y) THEN y ELSE x

RAbs(x) == <<Abs(x[1]), x[2]>>

RECURSIVE RPow(_, _)
RPow(x, k) == IF k = 0 THEN One ELSE RMul(x, RPow(x, k - 1))

RECURSIVE RSum(_)
RSum(v) == IF v = <<>> THEN Zero ELSE RAdd(Head(v), RSum(Tail(v)))

IsNum(x) == Len(x) = 2 /\ x[2] > 0

\* v[lo:hi] of Python (0-based, hi exclusive) on a 1-based sequence
Slice(v, lo, hi) == [k \in 1..(hi - lo) |-> v[lo + k]]

Reversed(v) == [k \in 1..Len(v) |-> v[Len(v) + 1 - k]]

-----------------------------------------------------------------------------
(* Binomial tree engine: _calc_LT of European and of LowExercisePrice *)

\* LowExercisePrice prices a call with the fixed strike 0.01
LEP_K == <<1, 100>>

\* what LT_specs(n) may return: u, d, p, df_dt; df_T = df_dt^n
LatticeUD == {<<<<2, 1>>, <<1, 2>>>>, <<<<3, 2>>, <<2, 3>>>>, <<<<3, 1>>, <<1, 2>>>>}
LatticeP == {<<0, 1>>, <<1, 4>>, <<1, 2>>, <<1, 1>>, <<3, 2>>}
LatticeDf == {<<1, 1>>, <<1, 2>>}

ValidLattice(sp) ==
    /\ RLt(Zero, sp.d) /\ RLt(sp.d, One) /\ RLt(One, sp.u)
    /\ RLe(Zero, sp.p) /\ RLe(sp.p, One)

\* the strike and sign the payoff uses
StrikeLT == IF self.cls = "European" THEN self.K ELSE LEP_K
SignLT == IF self.cls = "European" THEN self.signCP ELSE 1

\* S = S0 * d^(n..0) * u^(0..n)
TerminalS(n, sp, S0) ==
    [j \in 1..(n + 1) |-> RMul(RMul(S0, RPow(sp.d, n - (j - 1))), RPow(sp.u, j - 1))]

\* the payoff without its floor at 0
Payoff_NoFloor(s, strike, sign) == RMul(FromInt(sign), RSub(s, strike))

\* O = max(signCP * (S - K), 0)
Payoff(s, strike, sign) == RMax(RMul(FromInt(sign), RSub(s, strike)), Zero)

TerminalO(Sv, strike, sign) == [j \in 1..Len(Sv) |-> Payoff(Sv[j], strike, sign)]

\* O = df_dt * ((1 - p) * O[:i] + p * O[1:])
RollO(Ov, k, sp) ==
    LET lo == Slice(Ov, 0, k)
        hi == Slice(Ov, 1, Len(Ov))
    IN  [j \in 1..k |->
            RMul(RAdd(RMul(lo[j], RSub(One, sp.p)), RMul(hi[j], sp.p)), sp.df_dt)]

\* the roll of prices taking S[:i] for S[1:i+1]
RollS_NoShift(Sv, k, sp) ==
    LET lo == Slice(Sv, 0, k) IN [j \in 1..k |-> RMul(lo[j], sp.d)]

\* S = d * S[1:i+1]
RollS(Sv, k, sp) ==
    LET hi == Slice(Sv, 1, k + 1) IN [j \in 1..k |-> RMul(hi[j], sp.d)]

\* the step appended to the tree instead of prepended
Prepend_Appends(v, tree) == tree \o <<v>>

\* (tuple(S),) + S_tree
Prepend(v, tree) == <<v>> \o tree

(* Logarithms are kept as the number whose logarithm they are: a sum of    *)
(* logs is a product, a difference a quotient, k * log(x) a power, and     *)
(* exp gives the number back.  log is defined for positive numbers only.   *)
LogOf(x) == x
LAdd(a, b) == RMul(a, b)
LSub(a, b) == RDiv(a, b)
LScale(a, k) == RPow(a, k)
ExpOf(a) == a

\* csl = (0, log 1!, ..., log n!): cumulative sums of log(1..n) after a leading 0
RECURSIVE Cumsum(_, _)
Cumsum(v, acc) ==
    IF v = <<>> THEN <<>> ELSE <<LAdd(acc, Head(v))>> \o Cumsum(Tail(v), LAdd(acc, Head(v)))

Csl(n) == <<LogOf(One)>> \o Cumsum([k \in 1..n |-> LogOf(FromInt(k))], LogOf(One))

\* tmp = csl[n] - csl - reversed(csl) + (0..n) * log(p) + (n..0) * log(1 - p)
Tmp(n, sp) ==
    LET csl == Csl(n)
        rev == Reversed(csl)
    IN  [j \in 1..(n + 1) |->
            LAdd(LAdd(LSub(LSub(csl[n + 1], csl[j]), rev[j]),
                      LScale(LogOf(sp.p), j - 1)),
                 LScale(LogOf(RSub(One, sp.p)), n - (j - 1)))]

\* log(p) and log(1 - p) exist
LogsDefined(sp) == RLt(Zero, sp.p) /\ RLt(sp.p, One)

\* out = sum(exp(tmp) * df_T * O)
CollapseSum(n, sp, Ov) ==
    LET tmp == Tmp(n, sp)
    IN  RSum([j \in 1..(n + 1) |-> RMul(RMul(ExpOf(tmp[j]), sp.df_T), Ov[j])])

LTInputs ==
    {[cls |-> c, n |-> nn, S0 |-> s0, K |-> k, signCP |-> sg, keep_hist |-> kh] :
        c \in {"European"}, nn \in 0..MaxN, s0 \in {<<0, 1>>, <<3, 1>>},
        k \in {<<2, 1>>, <<4, 1>>}, sg \in {1, -1}, kh \in BOOLEAN}
    \cup
    {[cls |-> c, n |-> nn, S0 |-> s0, K |-> k, signCP |-> sg, keep_hist |-> kh] :
        c \in {"LowExercisePrice"}, nn \in 0..MaxN, s0 \in {<<0, 1>>, <<3, 1>>},
        k \in {LEP_K}, sg \in {1}, kh \in BOOLEAN}

InitLT ==
    /\ self \in LTInputs
    /\ pc = "start"
    /\ err = "none"
    /\ px_spec = None
    /\ specs = None /\ S = None /\ O = None /\ S_tree = None /\ O_tree = None
    /\ i = 0 /\ out = None
    /\ grid = None /\ f_px = None /\ Offset = None /\ idx = 0
    /\ bs = None

\* _ = self.LT_specs(n): dt = T / n fails for n < 1
LT_specs ==
    /\ pc = "start"
    /\ IF self.n < 1
       THEN /\ pc' = "failed"
            /\ err' = "ZeroDivisionError"
            /\ specs' = specs
       ELSE /\ \E ud \in LatticeUD, p \in LatticeP, df \in LatticeDf :
                specs' = [u |-> ud[1], d |-> ud[2], p |-> p, df_dt |-> df,
                          df_T |-> RPow(df, self.n)]
            /\ pc' = "terminal"
            /\ err' = err
    /\ UNCHANGED <<px_spec, self, S, O, S_tree, O_tree, i, out, fdVars, bs>>

\* terminal prices and payoffs; S_tree, O_tree = None, None
Terminal ==
    /\ pc = "terminal"
    /\ S' = TerminalS(self.n, specs, self.S0)
    /\ O' = TerminalO(S', StrikeLT, SignLT)
    /\ S_tree' = None /\ O_tree' = None
    /\ pc' = IF self.keep_hist THEN "hist" ELSE "collapse"
    /\ UNCHANGED <<err, px_spec, self, specs, i, out, fdVars, bs>>

\* S_tree, O_tree = (S,), (O,); the loop starts at i = n
BeginHist ==
    /\ pc = "hist"
    /\ S_tree' = <<S>> /\ O_tree' = <<O>>
    /\ i' = self.n
    /\ pc' = "roll"
    /\ UNCHANGED <<err, px_spec, self, specs, S, O, out, fdVars, bs>>

\* one pass of for i in range(n, 0, -1)
RollStep ==
    /\ pc = "roll" /\ i > 0
    /\ O' = RollO(O, i, specs)
    /\ S' = RollS(S, i, specs)
    /\ S_tree' = Prepend(S', S_tree)
    /\ O_tree' = Prepend(O', O_tree)
    /\ i' = i - 1
    /\ UNCHANGED <<pc, err, px_spec, self, specs, out, fdVars, bs>>

\* out = O_tree[0][0]
EndHist ==
    /\ pc = "roll" /\ i = 0
    /\ out' = O_tree[1][1]
    /\ pc' = "record"
    /\ UNCHANGED <<err, px_spec, self, specs, S, O, S_tree, O_tree, i, fdVars, bs>>

\* the else branch: math.log raises on a non-positive argument, np.log gives
\* -inf or nan there and the sum is nan
Collapse ==
    /\ pc = "collapse"
    /\ IF LogsDefined(specs)
       THEN /\ out' = CollapseSum(self.n, specs, O)
            /\ pc' = "record" /\ err' = err
       ELSE IF self.cls = "European"
            THEN /\ out' = out
                 /\ pc' = "failed" /\ err' = "ValueError"
            ELSE /\ out' = NaN
                 /\ pc' = "record" /\ err' = err
    /\ UNCHANGED <<px_spec, self, specs, S, O, S_tree, O_tree, i, fdVars, bs>>

\* self.px_spec.add(px=float(out), ..., ref_tree=S_tree, opt_tree=O_tree)
RecordLT ==
    /\ pc = "record"
    /\ px_spec' = [px |-> out, LT_specs |-> specs, ref_tree |-> S_tree, opt_tree |-> O_tree]
    /\ pc' = "done"
    /\ UNCHANGED <<err, self, ltVars, fdVars, bs>>

NextLT == LT_specs \/ Terminal \/ BeginHist \/ RollStep \/ EndHist \/ Collapse \/ RecordLT

SpecLT == InitLT /\ [][NextLT]_vars

-----------------------------------------------------------------------------
(* Implicit finite-difference solver: LowExercisePrice._calc_FD *)

\* K = 0.01 and K2 = 0, the locals of _calc_FD
FD_K == <<1, 100>>
K2 == 0

\* the rational standing for exp(-r * d_t): 1 for r = 0, inside (0, 1) for r > 0
DiscStep(r) == IF r = Zero THEN One ELSE <<1, 2>>

\* exp(-r * (ttm - t_vec[k])) with t_vec = linspace(0, ttm, time_steps)
Disc(r, N, k) == RPow(DiscStep(r), N - k)

Broadcast(x, len) == [k \in 1..len |-> x]

\* (x >= y) and (x <= y) as the factors 1 and 0 of the payoff gates
GateGe(x, y) == IF RLe(y, x) THEN One ELSE Zero
GateLe(x, y) == IF RLe(x, y) THEN One ELSE Zero

\* np.linspace(0, S_max, px_paths)
Linspace(hi, num) == [j \in 1..num |-> RDiv(RMul(hi, FromInt(j - 1)), FromInt(num - 1))]

\* the asserts without the one on vol
ValidateFD_NoVolCheck(o) ==
    /\ o.right \in {"call", "put"}
    /\ RLt(Zero, o.K)
    /\ RLt(Zero, o.T)
    /\ RLe(Zero, o.S0)
    /\ RLe(Zero, o.rf_r)

\* the asserts at the head of _calc_FD
ValidateFD(o) ==
    /\ o.right \in {"call", "put"}
    /\ RLt(Zero, o.vol)
    /\ RLt(Zero, o.K)
    /\ RLt(Zero, o.T)
    /\ RLe(Zero, o.S0)
    /\ RLe(Zero, o.rf_r)

\* the exception raised while the grid is set up, "none" when there is none
SetupError(o) ==
    IF o.npaths - 1 = 0 THEN "ZeroDivisionError"
    ELSE IF o.nsteps - 1 = 0 THEN "ZeroDivisionError"
    ELSE IF o.npaths < 0 \/ o.nsteps < 0 THEN "ValueError"
    ELSE IF o.nsteps = 0 \/ o.npaths = 0 THEN "IndexError"
    ELSE IF o.npaths - 1 < 2 THEN "ValueError"
    ELSE "none"

\* init_cond, upper_bound, lower_bound of the two rights
InitCond(right, S_vec) ==
    IF right = "call"
    THEN [j \in 1..Len(S_vec) |->
            RMul(RMax(RSub(S_vec[j], FD_K), Zero), GateGe(S_vec[j], FromInt(K2)))]
    ELSE [j \in 1..Len(S_vec) |->
            RMul(RMax(RSub(FD_K, S_vec[j]), Zero), GateLe(S_vec[j], FromInt(K2)))]

UpperBound(right, S_vec, r, N) ==
    IF right = "call"
    THEN Broadcast(Zero, N + 1)
    ELSE [k \in 1..(N + 1) |->
            RMul(RMul(RMax(RSub(FD_K, S_vec[1]), Zero), GateLe(S_vec[1], FromInt(K2))),
                 Disc(r, N, k - 1))]

LowerBound(right, S_vec, r, N) ==
    IF right = "call"
    THEN [k \in 1..(N + 1) |->
            RMul(RMul(RMax(RSub(S_vec[Len(S_vec)], FD_K), Zero),
                      GateGe(S_vec[Len(S_vec)], FromInt(K2))),
                 Disc(r, N, k - 1))]
    ELSE Broadcast(Zero, N + 1)

\* a_list, b_list, c_list over j = 0..M
AList(o, d_t, M) ==
    [jj \in 1..(M + 1) |->
        LET j == FromInt(jj - 1) IN
        RMul(RMul(<<1, 2>>, d_t),
             RSub(RMul(RSub(o.rf_r, o.q), j), RMul(RMul(o.vol, o.vol), RMul(j, j))))]

BList(o, d_t, M) ==
    [jj \in 1..(M + 1) |->
        LET j == FromInt(jj - 1) IN
        RAdd(One, RMul(d_t, RAdd(RMul(RMul(o.vol, o.vol), RMul(j, j)), o.rf_r)))]

CList(o, d_t, M) ==
    [jj \in 1..(M + 1) |->
        LET j == FromInt(jj - 1) IN
        RMul(RMul(<<1, 2>>, d_t),
             RSub(RMul(RNeg(RSub(o.rf_r, o.q)), j), RMul(RMul(o.vol, o.vol), RMul(j, j))))]

\* f_px[:, k] = v and f_px[j, :] = v (0-based j, k)
SetCol(f, k, v) == [j \in 1..Len(f) |-> [f[j] EXCEPT ![k + 1] = v[j]]]
SetRow(f, j, v) == [f EXCEPT ![j + 1] = v]

\* the terminal and boundary conditions, assigned in the order of the code
ApplyConditions(f, g) ==
    SetRow(SetRow(SetCol(f, g.N, g.init_cond), 0, g.upper_bound), g.M, g.lower_bound)

\* everything _calc_FD sets up before the loop
GridOf(o) ==
    LET M == o.npaths - 1
        N == o.nsteps - 1
        S_max == RMul(o.S0, FromInt(2))
        d_t == RDiv(o.T, FromInt(o.nsteps - 1))
        S_vec == Linspace(S_max, o.npaths)
    IN  [M |-> M, N |-> N, d_t |-> d_t, S_vec |-> S_vec,
         init_cond |-> InitCond(o.right, S_vec),
         upper_bound |-> UpperBound(o.right, S_vec, o.rf_r, N),
         lower_bound |-> LowerBound(o.right, S_vec, o.rf_r, N),
         a_list |-> AList(o, d_t, M),
         b_list |-> BList(o, d_t, M),
         c_list |-> CList(o, d_t, M)]

\* f_px = zeros; f_px[:, -1] = S_vec; then the conditions
InitialGrid(g) ==
    ApplyConditions(SetCol([j \in 1..(g.M + 1) |-> Broadcast(Zero, g.N + 1)], g.N, g.S_vec), g)

\* Offset[0] = -a_list[1] * f_px[0, idx]; Offset[-1] = -c_list[M-1] * f_px[M, idx]
OffsetOf(off, g, f, k) ==
    LET first == [off EXCEPT ![1] = RMul(RNeg(g.a_list[2]), f[1][k + 1])]
    IN  [first EXCEPT ![Len(off)] = RMul(RNeg(g.c_list[g.M]), f[g.M + 1][k + 1])]

\* spsolve(B, rhs) for B = diags((a_list[2:M], b_list[1:M], c_list[1:M-1]), [-1, 0, 1])
SpSolve(g, rhs) ==
    LET sub == Slice(g.a_list, 2, g.M)
        diag == Slice(g.b_list, 1, g.M)
        sup == Slice(g.c_list, 1, g.M - 1)
        m == Len(diag)
        dd[k \in 1..m] ==
            IF k = 1 THEN diag[1]
            ELSE RSub(diag[k], RMul(RDiv(sub[k - 1], dd[k - 1]), sup[k - 1]))
        rr[k \in 1..m] ==
            IF k = 1 THEN rhs[1]
            ELSE RSub(rhs[k], RMul(RDiv(sub[k - 1], dd[k - 1]), rr[k - 1]))
        xx[k \in 1..m] ==
            IF k = m THEN RDiv(rr[m], dd[m])
            ELSE RDiv(RSub(rr[k], RMul(sup[k], xx[k + 1])), dd[k])
    IN  [k \in 1..m |-> xx[k]]

\* f_px[1:M, idx + 1] + Offset
Rhs(f, off, g, k) == [j \in 1..(g.M - 1) |-> RAdd(f[j + 1][k + 2], off[j])]

\* the solution written to rows 0..M-2, one row too low
SetInterior_FromRow0(f, g, k, x) ==
    [j \in 1..Len(f) |-> IF j >= 1 /\ j <= g.M - 1 THEN [f[j] EXCEPT ![k + 1] = x[j]] ELSE f[j]]

\* f_px[1:M, idx] = x
SetInterior(f, g, k, x) ==
    [j \in 1..Len(f) |-> IF j >= 2 /\ j <= g.M THEN [f[j] EXCEPT ![k + 1] = x[j - 1]] ELSE f[j]]

\* np.interp(x, xp, fp)
Interp(x, xp, fp) ==
    LET len == Len(xp) IN
    IF RLt(xp[len], x) THEN fp[len]
    ELSE IF RLt(x, xp[1]) THEN fp[1]
    ELSE LET j == CHOOSE jj \in 1..len :
                    /\ RLe(xp[jj], x)
                    /\ \A kk \in (jj + 1)..len : RLt(x, xp[kk])
         IN  IF j = len THEN fp[j]
             ELSE IF xp[j] = x THEN fp[j]
             ELSE RAdd(fp[j], RMul(RDiv(RSub(fp[j + 1], fp[j]), RSub(xp[j + 1], xp[j])),
                                   RSub(x, xp[j])))

Column(f, k) == [j \in 1..Len(f) |-> f[j][k + 1]]

RatePairs == {<<<<-1, 1>>, Zero>>, <<Zero, Zero>>, <<Zero, <<2, 1>>>>, <<<<2, 1>>, Zero>>}

FDInputs ==
    {[right |-> rt, vol |-> v, K |-> k, T |-> t, S0 |-> s0, rf_r |-> rq[1], q |-> rq[2],
      nsteps |-> ns, npaths |-> np] :
        rt \in {"call", "put", "other"}, v \in {Zero, One}, k \in {Zero, LEP_K},
        t \in {Zero, One}, s0 \in {<<-1, 1>>, Zero, One}, rq \in RatePairs,
        ns \in (-1)..MaxSteps, np \in (-1)..MaxPaths}

InitFD ==
    /\ self \in FDInputs
    /\ pc = "start"
    /\ err = "none"
    /\ px_spec = None
    /\ specs = None /\ S = None /\ O = None /\ S_tree = None /\ O_tree = None
    /\ i = 0 /\ out = None
    /\ grid = None /\ f_px = None /\ Offset = None /\ idx = 0
    /\ bs = None

\* the six asserts
Validate ==
    /\ pc = "start"
    /\ IF ValidateFD(self)
       THEN pc' = "setup" /\ err' = err
       ELSE pc' = "failed" /\ err' = "AssertionError"
    /\ UNCHANGED <<px_spec, self, ltVars, fdVars, bs>>

\* grid axes, coefficient lists, conditions, Offset = zeros(M - 1)
Setup ==
    /\ pc = "setup"
    /\ IF SetupError(self) = "none"
       THEN /\ grid' = GridOf(self)
            /\ f_px' = InitialGrid(grid')
            /\ Offset' = Broadcast(Zero, grid'.M - 1)
            /\ idx' = grid'.N - 1
            /\ pc' = "offset" /\ err' = err
       ELSE /\ pc' = "failed" /\ err' = SetupError(self)
            /\ UNCHANGED fdVars
    /\ UNCHANGED <<px_spec, self, ltVars, bs>>

\* the two Offset assignments of the loop body
SetOffset ==
    /\ pc = "offset"
    /\ Offset' = OffsetOf(Offset, grid, f_px, idx)
    /\ pc' = "solve"
    /\ UNCHANGED <<err, px_spec, self, ltVars, grid, f_px, idx, bs>>

\* f_px[1:M, idx] = spsolve(B, f_px[1:M, idx + 1] + Offset)
Solve ==
    /\ pc = "solve"
    /\ f_px' = SetInterior(f_px, grid, idx, SpSolve(grid, Rhs(f_px, Offset, grid, idx)))
    /\ pc' = "reapply"
    /\ UNCHANGED <<err, px_spec, self, ltVars, grid, Offset, idx, bs>>

\* the conditions assigned again; then the next idx of arange(N - 1, -1, -1)
Reapply ==
    /\ pc = "reapply"
    /\ f_px' = ApplyConditions(f_px, grid)
    /\ idx' = idx - 1
    /\ pc' = IF idx - 1 >= 0 THEN "offset" ELSE "record"
    /\ UNCHANGED <<err, px_spec, self, ltVars, grid, Offset, bs>>

\* self.px_spec.add(px=float(np.interp(S0, S_vec, f_px[:, 0])), ...)
RecordFD ==
    /\ pc = "record"
    /\ px_spec' = [px |-> Interp(self.S0, grid.S_vec, Column(f_px, 0))]
    /\ pc' = "done"
    /\ UNCHANGED <<err, self, ltVars, fdVars, bs>>

NextFD == Validate \/ Setup \/ SetOffset \/ Solve \/ Reapply \/ RecordFD

SpecFD == InitFD /\ [][NextFD]_vars

-----------------------------------------------------------------------------
(* Analytic price: European._calc_BS *)

(* The library functions are computed on the inputs the model draws: S0 / K  *)
(* is a power of 2, T a perfect square, q * T and rf_r * T integers.         *)

\* the rationals standing for ln 2 and for e
Ln2 == <<7, 10>>
Euler == <<3, 1>>

Log2(m) == CHOOSE k \in 0..4 : RPow(<<2, 1>>, k) = FromInt(m)

\* math.log(x), x a power of 2
MathLog(x) == RMul(FromInt(Log2(x[1]) - Log2(x[2])), Ln2)

\* math.sqrt(x), x the square of an integer
MathSqrt(x) == FromInt(CHOOSE k \in 0..x[1] : k * k = x[1])

\* math.exp(x), x an integer
MathExp(x) == IF x[1] >= 0 THEN RPow(Euler, x[1]) ELSE RPow(RInv(Euler), -x[1])

\* Util.norm_cdf: a distribution function symmetric about 0, increasing from 0 to 1
norm_cdf(x) == RAdd(<<1, 2>>, RDiv(x, RMul(FromInt(2), RAdd(One, RAbs(x)))))

\* d1 = (log(S0 / K) + (rf_r + vol ** 2 / 2) * T) / (vol * sqrt(T))
D1(o) ==
    RDiv(RAdd(MathLog(RDiv(o.S0, o.K)),
              RMul(RAdd(o.rf_r, RDiv(RMul(o.vol, o.vol), FromInt(2))), o.T)),
         RMul(o.vol, MathSqrt(o.T)))

\* d2 = d1 - vol * sqrt(T)
D2(o, d1) == RSub(d1, RMul(o.vol, MathSqrt(o.T)))

\* px_call = S0 * exp(-q * T) * N(d1) - K * exp(-rf_r * T) * N(d2)
PxCall(o, d1, d2) ==
    RSub(RMul(RMul(o.S0, MathExp(RMul(RNeg(o.q), o.T))), norm_cdf(d1)),
         RMul(RMul(o.K, MathExp(RMul(RNeg(o.rf_r), o.T))), norm_cdf(d2)))

\* the put price with N(d1) for N(-d1)
PxPut_WrongTail(o, d1, d2) ==
    RAdd(RMul(RMul(RNeg(o.S0), MathExp(RMul(RNeg(o.q), o.T))), norm_cdf(d1)),
         RMul(RMul(o.K, MathExp(RMul(RNeg(o.rf_r), o.T))), norm_cdf(RNeg(d2))))

\* px_put = -S0 * exp(-q * T) * N(-d1) + K * exp(-rf_r * T) * N(-d2)
PxPut(o, d1, d2) ==
    RAdd(RMul(RMul(RNeg(o.S0), MathExp(RMul(RNeg(o.q), o.T))), norm_cdf(RNeg(d1))),
         RMul(RMul(o.K, MathExp(RMul(RNeg(o.rf_r), o.T))), norm_cdf(RNeg(d2))))

BSInputs ==
    {[S0 |-> FromInt(s0), K |-> FromInt(k), vol |-> v, T |-> FromInt(t),
      rf_r |-> FromInt(r), q |-> FromInt(qq), signCP |-> sg] :
        s0 \in {1, 2, 4}, k \in {1, 2, 4}, v \in {<<1, 2>>, One}, t \in {1, 4},
        r \in {-1, 0, 1}, qq \in {0, 1}, sg \in {1, -1}}

InitBS ==
    /\ self \in BSInputs
    /\ pc = "start"
    /\ err = "none"
    /\ px_spec = None
    /\ specs = None /\ S = None /\ O = None /\ S_tree = None /\ O_tree = None
    /\ i = 0 /\ out = None
    /\ grid = None /\ f_px = None /\ Offset = None /\ idx = 0
    /\ bs = None

\* d1 and d2
CalcD ==
    /\ pc = "start"
    /\ bs' = [d1 |-> D1(self), d2 |-> D2(self, D1(self))]
    /\ pc' = "prices"
    /\ UNCHANGED <<err, px_spec, self, ltVars, fdVars>>

\* px_call, px_put and the px of the option's right
CalcPx ==
    /\ pc = "prices"
    /\ bs' = [d1 |-> bs.d1, d2 |-> bs.d2,
              px_call |-> PxCall(self, bs.d1, bs.d2),
              px_put |-> PxPut(self, bs.d1, bs.d2)]
    /\ pc' = "record"
    /\ UNCHANGED <<err, px_spec, self, ltVars, fdVars>>

\* self.px_spec.add(px=px, ..., px_call=px_call, px_put=px_put, d1=d1, d2=d2)
RecordBS ==
    /\ pc = "record"
    /\ px_spec' = [px |-> IF self.signCP = 1 THEN bs.px_call
                          ELSE IF self.signCP = -1 THEN bs.px_put ELSE None,
                   px_call |-> bs.px_call, px_put |-> bs.px_put,
                   d1 |-> bs.d1, d2 |-> bs.d2]
    /\ pc' = "done"
    /\ UNCHANGED <<err, self, ltVars, fdVars, bs>>

NextBS == CalcD \/ CalcPx \/ RecordBS

SpecBS == InitBS /\ [][NextBS]_vars

-----------------------------------------------------------------------------
(* Claims about the binomial tree engine *)

Finished == pc \in {"done", "failed"}

\* the backward roll of a whole value vector down to step 0
RECURSIVE FullRoll(_, _, _)
FullRoll(Ov, k, sp) == IF k = 0 THEN Ov[1] ELSE FullRoll(RollO(Ov, k, sp), k - 1, sp)

\* C1: for every valid parameter set (n >= 1, 0 < d < 1 < u, 0 <= p <= 1) the
\* price of the full-history mode equals the price of the closed-form collapse
\* mode: a finished full-history call recorded the collapse sum of its terminal
\* payoffs, and a collapse call finishes with the price the backward roll gives.
C1_ModesAgree ==
    (Finished /\ self.n >= 1 /\ ValidLattice(specs)) =>
        /\ pc = "done"
        /\ IF self.keep_hist
           THEN /\ LogsDefined(specs)
                /\ px_spec.px = CollapseSum(self.n, specs, px_spec.opt_tree[self.n + 1])
           ELSE px_spec.px = FullRoll(O, self.n, specs)

\* the two modes agree whenever log(p) and log(1 - p) exist
ModesAgreeInterior ==
    (Finished /\ self.n >= 1 /\ LogsDefined(specs)) =>
        /\ pc = "done"
        /\ IF self.keep_hist
           THEN px_spec.px = CollapseSum(self.n, specs, px_spec.opt_tree[self.n + 1])
           ELSE px_spec.px = FullRoll(O, self.n, specs)

AllNonNegative(v) == \A j \in 1..Len(v) : v[j][1] >= 0

ValuesNonNegative ==
    /\ O # None => AllNonNegative(O)
    /\ O_tree # None => \A k \in 1..Len(O_tree) : AllNonNegative(O_tree[k])
    /\ (out # None /\ IsNum(out)) => out[1] >= 0
    /\ (px_spec # None /\ IsNum(px_spec.px)) => px_spec.px[1] >= 0

\* C2 as stated: the final price and every option value at every node of every
\* step of the value tree are never negative.
C2_NeverNegative == ValuesNonNegative

\* C2 amended: the price and every node value are never negative when the
\* lattice constants satisfy 0 <= p <= 1.
C2_NeverNegativeValidP ==
    (specs # None /\ RLe(Zero, specs.p) /\ RLe(specs.p, One)) => ValuesNonNegative

C2_Witness ==
    /\ pc = "done" /\ self.keep_hist /\ self.n >= 2
    /\ RLt(Zero, specs.p) /\ RLt(specs.p, One)
    /\ self.signCP = -1
    /\ px_spec.px[1] > 0

\* C4: with n = 0 the tree engine returns, in either mode, the discounted
\* intrinsic payoff df_T * max(signCP * (S0 - K), 0) instead of failing.
C4_ZeroSteps ==
    (Finished /\ self.n = 0) =>
        /\ pc = "done"
        /\ px_spec.px = RMul(specs.df_T, Payoff(self.S0, StrikeLT, SignLT))

StepOf(k) == (self.n + 1 - Len(S_tree)) + (k - 1)

\* C10: in full-history mode the price stored at step s, index j is
\* S0 * d^(s-j) * u^j whenever u * d = 1, the root of the finished price tree is
\* then S0, and each value at step s - 1, index j is
\* df_dt * ((1 - p) * O_s[j] + p * O_s[j + 1]).
C10_Recombining ==
    S_tree # None =>
        /\ S_tree[Len(S_tree)] = TerminalS(self.n, specs, self.S0)
        /\ RMul(specs.u, specs.d) = One =>
              /\ \A k \in 1..Len(S_tree) : \A j \in 1..Len(S_tree[k]) :
                    S_tree[k][j] =
                        RMul(RMul(self.S0, RPow(specs.d, StepOf(k) - (j - 1))),
                             RPow(specs.u, j - 1))
              /\ pc = "done" => px_spec.ref_tree[1] = <<self.S0>>
        /\ \A k \in 1..(Len(O_tree) - 1) : \A j \in 1..Len(O_tree[k]) :
              O_tree[k][j] =
                  RMul(specs.df_dt,
                       RAdd(RMul(RSub(One, specs.p), O_tree[k + 1][j]),
                            RMul(specs.p, O_tree[k + 1][j + 1])))

C10_Witness ==
    /\ pc = "done" /\ self.keep_hist /\ self.n >= 2
    /\ RMul(specs.u, specs.d) = One
    /\ self.S0 # Zero

-----------------------------------------------------------------------------
(* Claims about the finite-difference solver *)

GridSet == pc \in {"offset", "solve", "reapply", "record", "done"}

\* C3: every entry of f_px is non-negative after every backward time step, and
\* so is the final interpolated price, for every parameter set that passes the
\* validation preconditions.
C3_GridNonNegative ==
    /\ f_px # None => \A j \in 1..Len(f_px) : \A k \in 1..Len(f_px[j]) : f_px[j][k][1] >= 0
    /\ (pc = "done" /\ grid # None) => px_spec.px[1] >= 0

\* the invalid parameters of the error taxonomy
InvalidFD(o) ==
    \/ o.right \notin {"call", "put"}
    \/ o.vol[1] <= 0
    \/ o.K[1] <= 0
    \/ o.T[1] <= 0
    \/ o.S0[1] < 0
    \/ o.rf_r[1] < 0
    \/ o.nsteps <= 0
    \/ o.npaths <= 0

ConditionsHeld ==
    /\ f_px[1] = grid.upper_bound
    /\ f_px[grid.M + 1] = grid.lower_bound
    /\ Column(f_px, grid.N) = grid.init_cond

\* for a call: 0 at price index 0, (2*S0 - K) * e^(-r*(T - t)) at price index M,
\* max(S - K, 0) in column N
CallValuesAsStated ==
    self.right = "call" =>
        /\ \A k \in 0..grid.N : f_px[1][k + 1] = Zero
        /\ \A k \in 0..grid.N :
              f_px[grid.M + 1][k + 1] =
                  RMul(RSub(RMul(FromInt(2), self.S0), FD_K), Disc(self.rf_r, grid.N, k))
        /\ \A j \in 0..grid.M :
              f_px[j + 1][grid.N + 1] = RMax(RSub(grid.S_vec[j + 1], FD_K), Zero)

\* C8 as stated, its part about the grid's content: at every point of the loop
\* row 0, row M and column N hold the boundary and terminal conditions, with
\* the values the claim gives for a call.
C8_ConditionsAsStated == GridSet => (ConditionsHeld /\ CallValuesAsStated)

\* column N holds init_cond wherever a boundary row does not overwrite it; row M
\* is assigned last and wins the corner
ConditionsHeldInOrder ==
    /\ f_px[1] = grid.upper_bound
    /\ f_px[grid.M + 1] = grid.lower_bound
    /\ \A j \in 0..(grid.M - 1) : f_px[j + 1][grid.N + 1] = grid.init_cond[j + 1]
    /\ (self.right = "call" \/ self.S0 # Zero) => Column(f_px, grid.N) = grid.init_cond

\* for a call the value at price index M is the floored payoff, discounted
CallValuesFloored ==
    self.right = "call" =>
        /\ \A k \in 0..grid.N : f_px[1][k + 1] = Zero
        /\ \A k \in 0..grid.N :
              f_px[grid.M + 1][k + 1] =
                  RMul(RMax(RSub(RMul(FromInt(2), self.S0), FD_K), Zero),
                       Disc(self.rf_r, grid.N, k))
        /\ \A j \in 0..grid.M :
              f_px[j + 1][grid.N + 1] = RMax(RSub(grid.S_vec[j + 1], FD_K), Zero)

\* the solve writes rows 1..M-1 of column idx only
SolveFrame ==
    pc = "solve" =>
        \A j \in 0..grid.M : \A k \in 0..grid.N :
            (k # idx \/ j = 0 \/ j = grid.M) => f_px'[j + 1][k + 1] = f_px[j + 1][k + 1]

\* assigning the conditions again changes no grid entry
ReapplyNoOp == pc = "reapply" => f_px' = f_px

\* C8 amended: the solve at idx writes only rows 1..M-1 of column idx; at every
\* point of the loop rows 0 and M hold the boundary conditions and column N the
\* terminal condition (for a put with S0 = 0 the corner at index M holds the
\* boundary value); for a call the values are 0 at index 0, the discounted
\* floored payoff max(2*S0 - K, 0) * e^(-r*(T - t)) at index M and max(S - K, 0)
\* in column N; and assigning the conditions again changes no grid entry.
C8_ConditionsFrame ==
    /\ [](GridSet => (ConditionsHeldInOrder /\ CallValuesFloored))
    /\ [][SolveFrame /\ ReapplyNoOp]_vars

C8_Witness ==
    /\ pc = "record" /\ grid.N >= 2 /\ grid.M >= 3
    /\ self.right = "call" /\ self.S0 # Zero
    /\ \E j \in 1..(grid.M - 1) : f_px[j + 1][1] # Zero

\* the offset that carries both boundary corrections
OffsetAsStated(g, f, k) ==
    [j \in 1..(g.M - 1) |->
        RAdd(IF j = 1 THEN RMul(RNeg(g.a_list[2]), f[1][k + 1]) ELSE Zero,
             IF j = g.M - 1 THEN RMul(RNeg(g.c_list[g.M]), f[g.M + 1][k + 1]) ELSE Zero)]

\* C9: for every grid with M >= 2 and every idx the right-hand side of the
\* interior solve is f[1..M-1, idx+1] plus an offset whose first entry carries
\* -a_1 * f[0, idx] and whose last entry carries -c_(M-1) * f[M, idx], neither
\* lost or overwritten by the other, all other entries 0.
C9_OffsetBothCorrections ==
    (pc = "solve" /\ grid.M >= 2) =>
        /\ Offset = OffsetAsStated(grid, f_px, idx)
        /\ Rhs(f_px, Offset, grid, idx) =
              [j \in 1..(grid.M - 1) |->
                  RAdd(f_px[j + 1][idx + 2], OffsetAsStated(grid, f_px, idx)[j])]

\* the two corrections are both carried when M >= 3
OffsetBothCorrectionsWide ==
    (pc = "solve" /\ grid.M >= 3) => Offset = OffsetAsStated(grid, f_px, idx)

-----------------------------------------------------------------------------
(* Claim about the analytic price *)

\* C7: the two prices _calc_BS records satisfy put-call parity:
\* px_call - px_put = S0 * e^(-q*T) - K * e^(-r*T).
C7_PutCallParity ==
    pc = "done" =>
        RSub(px_spec.px_call, px_spec.px_put) =
            RSub(RMul(self.S0, MathExp(RMul(RNeg(self.q), self.T))),
                 RMul(self.K, MathExp(RMul(RNeg(self.rf_r), self.T))))

C7_Witness ==
    /\ pc = "done"
    /\ self.q # Zero /\ self.rf_r # Zero /\ self.S0 # self.K
    /\ px_spec.px_call # px_spec.px_put
    /\ px_spec.px_call[1] > 0

====
